---------------------------- MODULE Spec2Model ----------------------------
(***************************************************************************)
(* A model of src/App.tsx: the React state of the App component, its event *)
(* handlers, and the asynchronous continuations of handleCompress and      *)
(* handleApplyEdit.                                                        *)
(*                                                                         *)
(* Each action is one run-to-completion step of the JavaScript event loop: *)
(* a click handler, or the code between two awaits of an async function.   *)
(* All setState calls of one such step are applied together; the effect    *)
(* cleanup of lines 70-79 runs in the step that replaces `results`.        *)
(* The collaborators (FileReader, pdf.js, jsPDF, the canvas, the remote    *)
(* summarization and image-edit services) are opaque: each call either     *)
(* returns or fails, chosen nondeterministically.                          *)
(***************************************************************************)
EXTENDS Integers, Sequences, FiniteSets, TLC

\* How many compression runs and edit requests a behaviour may start.
MaxRuns == 2
MaxEdits == 2

RunIds == 1..MaxRuns
EditIds == 1..MaxEdits

-----------------------------------------------------------------------------
(* Inputs: the files a user can drop.  File 0 stands for `null`.           *)

NoFile == 0
Files == {1, 2}

\* The largest size and page count of the documents of the checks over sizes.
MaxSize == 7
MaxPages == 3

\* The PDF named doc.pdf of `size` bytes and `numPages` pages (numPages < 100).
SizedFile(size, numPages) == 100 * (size + 1) + numPages
SizedFiles == {SizedFile(size, numPages) : size \in 0..MaxSize, numPages \in 1..MaxPages}

\* file.type: file 2 is a text file whose name ends in .pdf, the others are PDFs
FileType(f) == IF f = 2 THEN "text/plain" ELSE "application/pdf"
\* file.name
FileName(f) == IF f = 2 THEN "notes.pdf" ELSE "doc.pdf"
\* file.size, in bytes
FileSize(f) == IF f = 1 THEN 5 ELSE IF f = 2 THEN 3 ELSE (f \div 100) - 1
\* pdf.numPages of the decoded document
NumPages(f) == IF f = 1 THEN 2 ELSE IF f = 2 THEN 1 ELSE f % 100

\* file.name.replace('.pdf', '') for the names above
StripPdf(name) == IF name = "doc.pdf" THEN "doc" ELSE "notes"

\* The rows a result list can have: one per page of the longest document.
Rows == 0..(NumPages(1) - 1)

\* The format and quality buttons a user clicks (of jpeg, png, pdf and of low,
\* medium, high): one image format and the summary, and two qualities.
Formats == {"jpeg", "pdf"}
Levels == {"medium", "high"}
\* The instruction texts a user types into the edit input.
Prompts == {"", "grayscale"}

-----------------------------------------------------------------------------
(* Values                                                                  *)

Null == "null"

\* editingState === null
NoEdit == [open |-> FALSE, index |-> 0, prompt |-> "", isLoading |-> FALSE]
EditState(index, prompt, isLoading) ==
  [open |-> TRUE, index |-> index, prompt |-> prompt, isLoading |-> isLoading]

\* A status message; i and n are the page numbers of "Converting page i of n...".
Msg(text) == [text |-> text, i |-> 0, n |-> 0]
PageMsg(i, n) == [text |-> "Converting page", i |-> i, n |-> n]

\* getQuality(), in hundredths
getQuality(level) ==
  CASE level = "low" -> 50 [] level = "medium" -> 75 [] level = "high" -> 92
    [] OTHER -> 75

\* A URL: `data:<mime>;base64,<body>` or `blob:<body>`.  The body of a data
\* URL is the identifier of a base64 payload; that of a blob URL is the
\* handle returned by URL.createObjectURL.
DataUrl(mime, payload) == [scheme |-> "data", mime |-> mime, body |-> payload]
BlobUrl(handle) == [scheme |-> "blob", mime |-> "", body |-> handle]
NoUrl == [scheme |-> "", mime |-> "", body |-> 0]

\* canvas.toDataURL(mimeType, quality) of page i of file f: the payload.
CanvasPayload(f, i, format, quality) ==
  ((f * 10 + i) * 2 + (IF format = "png" THEN 1 ELSE 0)) * 100 + quality

\* The payloads the remote image-edit service may answer with.
EditReplies == {7001}

\* atob(payload).length: the byte length of the decoded payload.
DecodedLength(payload) == (payload % 100) + (payload \div 1000)

\* dataUrl.split(',').length
SplitParts(url) == IF url.scheme = "data" THEN 2 ELSE 1

\* An artifact name `<base>_page_<i>[_edited...].<ext>` or `<base>_summary.pdf`.
PageName(base, i, ext) ==
  [base |-> base, kind |-> "page", page |-> i, ext |-> ext, edited |-> 0]
SummaryName(base) ==
  [base |-> base, kind |-> "summary", page |-> 0, ext |-> "pdf", edited |-> 0]

\* name.replace(/(\.[\w\d_-]+)$/i, '_edited$1')
EditedName(name) == [name EXCEPT !.edited = @ + 1]

\* An entry of `results` that holds no artifact (a hole left by an assignment
\* past the end of the array).
Hole ==
  [name |-> [base |-> "", kind |-> "hole", page |-> 0, ext |-> "", edited |-> 0],
   dataUrl |-> NoUrl, previewUrl |-> NoUrl, originalSize |-> 0, compressedSize |-> 0]

\* res.name.endsWith('.jpeg') || res.name.endsWith('.png')
IsImage(res) == res.name.ext \in {"jpeg", "png"}

\* Math.floor(a / b) for a >= 0, b > 0
FloorDiv(a, b) == a \div b

\* Math.round(a / b) for a >= 0, b > 0
RoundDiv(a, b) == (2 * a + b) \div (2 * b)

-----------------------------------------------------------------------------
VARIABLES
  file,          \* useState<File | null>
  options,       \* useState<CompressionOptions>
  status,        \* useState<AppStatus>
  statusMessage, \* useState('')
  results,       \* useState<ProcessedFile[]>
  error,         \* useState<string | null>
  editingState,  \* useState<{index, prompt, isLoading} | null>
  runs,          \* the invocations of handleCompress, by start order
  edits,         \* the invocations of handleApplyEdit that reached the remote call
  revoked        \* how often URL.revokeObjectURL was called on each handle

vars ==
  <<file, options, status, statusMessage, results, error, editingState,
    runs, edits, revoked>>

\* A run that has not started.  `file` and `options` are the values the
\* handler closed over, `i` the loop counter, `processed` the local array,
\* `url` whether the run has called URL.createObjectURL (its handle is its id).
NoRun ==
  [pc |-> "unused", file |-> NoFile, options |-> [format |-> "jpeg", level |-> "medium"],
   i |-> 0, processed |-> <<>>, url |-> FALSE]

\* An edit request that has not started.  `index`, `prompt` and `original`
\* are the values the handler closed over.  A request is "pending" while it
\* awaits editImageWithText, then "done" (the result set was updated) or
\* "failed" (the catch block ran).
NoEditRun == [pc |-> "unused", index |-> 0, prompt |-> "", original |-> Hole]

Init ==
  /\ file = NoFile
  /\ options = [format |-> "jpeg", level |-> "medium"]
  /\ status = "idle"
  /\ statusMessage = Msg("")
  /\ results = <<>>
  /\ error = Null
  /\ editingState = NoEdit
  /\ runs = [r \in RunIds |-> NoRun]
  /\ edits = [e \in EditIds |-> NoEditRun]
  /\ revoked = [r \in RunIds |-> 0]


-----------------------------------------------------------------------------
(* The effect of lines 70-79: when `results` is replaced, the cleanup of   *)
(* the previous effect revokes every blob: URL of the previous array.      *)

RevokeAll(old) ==
  [h \in RunIds |->
     revoked[h] + Cardinality({k \in 1..Len(old) :
                                 /\ old[k].dataUrl.scheme = "blob"
                                 /\ old[k].dataUrl.body = h})]

\* setResults(new), followed by the re-render that runs the effect cleanup.
SetResults(new) ==
  /\ results' = new
  /\ revoked' = RevokeAll(results)

-----------------------------------------------------------------------------
(* What the rendered page offers (lines 287-402).                          *)

\* The block of the selected file (lines 295-338) is rendered.
FileShown == file # NoFile
\* The result list (lines 343-402) is rendered.
ResultsShown == status = "success" /\ Len(results) > 0
\* Row `index` of the result list is rendered (map skips holes).
RowShown(index) ==
  /\ ResultsShown
  /\ index + 1 \in 1..Len(results)
  /\ results[index + 1] # Hole
\* The edit panel (lines 379-396) is rendered in some row.
PanelShown == editingState.open /\ RowShown(editingState.index)

-----------------------------------------------------------------------------
(* User actions                                                            *)

\* An onDrop that stores the file whatever its type.
onDropKeepsFile(f) ==
  /\ ~FileShown
  /\ IF FileType(f) # "application/pdf"
       THEN /\ error' = "Invalid file type. Please upload a PDF."
            /\ file' = f
            /\ UNCHANGED <<status, results, revoked>>
       ELSE /\ file' = f
            /\ status' = "idle"
            /\ SetResults(<<>>)
            /\ error' = Null
  /\ UNCHANGED <<options, statusMessage, editingState, runs, edits>>

\* onDrop([f]) (lines 81-93); the drop zone is rendered while no file is selected.
onDrop(f) ==
  /\ ~FileShown
  /\ IF FileType(f) # "application/pdf"
       THEN /\ error' = "Invalid file type. Please upload a PDF."
            /\ UNCHANGED <<file, status, results, revoked>>
       ELSE /\ file' = f
            /\ status' = "idle"
            /\ SetResults(<<>>)
            /\ error' = Null
  /\ UNCHANGED <<options, statusMessage, editingState, runs, edits>>

\* The format buttons (lines 309-313).
SetFormat(format) ==
  /\ FileShown
  /\ options' = [options EXCEPT !.format = format]
  /\ UNCHANGED <<file, status, statusMessage, results, error, editingState,
                 runs, edits, revoked>>

\* The quality buttons (lines 317-327), rendered for the image formats.
SetLevel(level) ==
  /\ FileShown
  /\ options.format # "pdf"
  /\ options' = [options EXCEPT !.level = level]
  /\ UNCHANGED <<file, status, statusMessage, results, error, editingState,
                 runs, edits, revoked>>

\* A handleReset that leaves the edit session and the progress message.
handleResetKeepsSession ==
  /\ file' = NoFile
  /\ SetResults(<<>>)
  /\ status' = "idle"
  /\ error' = Null
  /\ UNCHANGED <<options, statusMessage, editingState, runs, edits>>

\* handleReset (lines 262-269), the "Change file" button.
handleReset ==
  /\ file' = NoFile
  /\ SetResults(<<>>)
  /\ status' = "idle"
  /\ error' = Null
  /\ statusMessage' = Msg("")
  /\ editingState' = NoEdit
  /\ UNCHANGED <<options, runs, edits>>

Reset ==
  /\ FileShown
  /\ handleReset

\* A handleCompress without the check of line 111.
handleCompressNoFileCheck(r) ==
  /\ status' = "processing"
  /\ SetResults(<<>>)
  /\ error' = Null
  /\ editingState' = NoEdit
  /\ runs' = [runs EXCEPT ![r] =
                [NoRun EXCEPT !.pc = "reading", !.file = file,
                              !.options = options]]
  /\ UNCHANGED <<file, options, statusMessage, edits>>

\* The synchronous part of handleCompress (lines 110-120): up to the start of
\* the file read.  The run closes over `file` and `options`.
handleCompress(r) ==
  IF file = NoFile
    THEN UNCHANGED vars
    ELSE /\ status' = "processing"
         /\ SetResults(<<>>)
         /\ error' = Null
         /\ editingState' = NoEdit
         /\ runs' = [runs EXCEPT ![r] =
                       [NoRun EXCEPT !.pc = "reading", !.file = file,
                                     !.options = options]]
         /\ UNCHANGED <<file, options, statusMessage, edits>>

\* The "Compress File" button (lines 331-337), disabled while processing.
StartCompress ==
  /\ FileShown
  /\ status # "processing"
  /\ \E r \in RunIds :
       /\ runs[r].pc = "unused"
       /\ \A q \in RunIds : q < r => runs[q].pc # "unused"
       /\ handleCompress(r)

\* The edit button of row `index` (lines 369-373).
OpenEdit(index) ==
  /\ RowShown(index)
  /\ IsImage(results[index + 1])
  /\ ~editingState.open
  /\ editingState' = EditState(index, "", FALSE)
  /\ UNCHANGED <<file, options, status, statusMessage, results, error,
                 runs, edits, revoked>>

\* The instruction input (lines 382-389).
UpdateEditText(prompt) ==
  /\ PanelShown
  /\ ~editingState.isLoading
  /\ editingState' = [editingState EXCEPT !.prompt = prompt]
  /\ UNCHANGED <<file, options, status, statusMessage, results, error,
                 runs, edits, revoked>>

\* The Cancel button (line 393).
CancelEdit ==
  /\ PanelShown
  /\ ~editingState.isLoading
  /\ editingState' = NoEdit
  /\ UNCHANGED <<file, options, status, statusMessage, results, error,
                 runs, edits, revoked>>

-----------------------------------------------------------------------------
(* The asynchronous part of handleCompress: fileReader.onload (lines       *)
(* 122-198) and fileReader.onerror (lines 200-203).  A step of a run is    *)
(* the code up to the next await after which React state is set; awaits    *)
(* with no setState between them are taken in one step.  A run is at       *)
(*   "reading"    the FileReader reads the file, then                      *)
(*                await pdfjsLib.getDocument(...)           (lines 120-130)*)
(*   "text"       the loop of await getPage(i), getTextContent()           *)
(*                                                          (lines 136-141)*)
(*   "summarize"  await summarizePdfText(fullText)          (line 144)     *)
(*   "preview"    await generatePdfPreview(compressedBlob)  (line 156)     *)
(*   "page"       await getPage(i), page.render(...)        (lines 173-181)*)
(*   "done"       onload returned after setStatus('success')               *)
(*   "failed"     the run set status 'error' and returned                  *)
(*   "rejected"   an awaited promise rejected: onload's promise rejects,   *)
(*                and nothing handles it (the try of lines 118-207 has     *)
(*                ended when onload runs)                                  *)

InFlight == {"reading", "text", "summarize", "preview", "page"}

\* The artifact pushed for page i (lines 186-192).
PageArtifact(f, opts, i) ==
  LET dataUrl == DataUrl("image/" \o opts.format,
                         CanvasPayload(f, i, opts.format, getQuality(opts.level)))
  IN  [name |-> PageName(StripPdf(FileName(f)), i, opts.format),
       dataUrl |-> dataUrl,
       previewUrl |-> dataUrl,
       originalSize |-> RoundDiv(FileSize(f), NumPages(f)),
       compressedSize |-> DecodedLength(dataUrl.body)]

\* doc.output('blob').size of the summary of file f
SummaryBlobSize(f) == 1 + NumPages(f)
\* The payload of the thumbnail generatePdfPreview returns.
PreviewPayload(f) == 9000 + f

\* The artifact of the summary branch (lines 158-164); `handle` is the blob URL.
SummaryArtifact(f, handle) ==
  [name |-> SummaryName(StripPdf(FileName(f))),
   dataUrl |-> BlobUrl(handle),
   previewUrl |-> DataUrl("image/png", PreviewPayload(f)),
   originalSize |-> FileSize(f),
   compressedSize |-> SummaryBlobSize(f)]

\* A run that is over keeps nothing but how it ended and whether it created
\* a blob URL.
Over(r, pc) == [NoRun EXCEPT !.pc = pc, !.url = runs[r].url]

\* onload without a result (lines 123-127).
ReadEmpty(r) ==
  /\ runs[r].pc = "reading"
  /\ error' = "Failed to read file."
  /\ status' = "error"
  /\ runs' = [runs EXCEPT ![r] = Over(r, "failed")]
  /\ UNCHANGED <<file, options, statusMessage, results, editingState, edits,
                 revoked>>

\* onerror (lines 200-203).
ReadError(r) ==
  /\ runs[r].pc = "reading"
  /\ error' = "Error reading file."
  /\ status' = "error"
  /\ runs' = [runs EXCEPT ![r] = Over(r, "failed")]
  /\ UNCHANGED <<file, options, statusMessage, results, editingState, edits,
                 revoked>>

\* What the run does when an awaited promise rejects (or the code after it
\* throws): nothing catches it, so no state is set.
OnReject(r) ==
  /\ runs' = [runs EXCEPT ![r] = Over(r, "rejected")]
  /\ UNCHANGED <<status, error, results, revoked>>

\* An awaited collaborator call of run r fails: getDocument (line 130),
\* getPage, getTextContent, summarizePdfText, generatePdfPreview or render.
AwaitRejects(r) ==
  /\ runs[r].pc \in InFlight
  /\ OnReject(r)
  /\ UNCHANGED <<file, options, statusMessage, editingState, edits>>

\* A run that drops its output when a later run has been started.
PublishIfCurrent(r, artifacts) ==
  IF \A q \in RunIds : q > r => runs[q].pc = "unused"
    THEN /\ SetResults(artifacts)
         /\ status' = "success"
         /\ runs' = [runs EXCEPT ![r] = Over(r, "done")]
    ELSE /\ runs' = [runs EXCEPT ![r] = Over(r, "done")]
         /\ UNCHANGED <<status, results, revoked>>

\* The end of onload (lines 158-164 or 195, then 197).
Publish(r, artifacts) ==
  /\ SetResults(artifacts)
  /\ status' = "success"
  /\ runs' = [runs EXCEPT ![r] = Over(r, "done")]

\* onload with a result, and getDocument resolved (lines 122-136 and
\* 166-172): the branch is chosen by the options the run closed over.
Decoded(r) ==
  /\ runs[r].pc = "reading"
  /\ LET n == NumPages(runs[r].file) IN
     IF runs[r].options.format = "pdf"
       THEN /\ statusMessage' = Msg("Extracting text from PDF...")
            /\ runs' = [runs EXCEPT ![r].pc = "text"]
            /\ UNCHANGED <<status, results, revoked>>
       ELSE IF n >= 1
         THEN /\ statusMessage' = PageMsg(1, n)
              /\ runs' = [runs EXCEPT ![r].pc = "page", ![r].i = 1]
              /\ UNCHANGED <<status, results, revoked>>
         ELSE /\ Publish(r, <<>>)
              /\ UNCHANGED statusMessage
  /\ UNCHANGED <<file, options, error, editingState, edits>>

\* The text of every page was extracted (lines 136-143).
TextExtracted(r) ==
  /\ runs[r].pc = "text"
  /\ runs' = [runs EXCEPT ![r].pc = "summarize"]
  /\ statusMessage' = Msg("AI is summarizing the content...")
  /\ UNCHANGED <<file, options, status, results, error, editingState, edits,
                 revoked>>

\* summarizePdfText resolved (lines 144-156): the new PDF is built, its blob
\* URL is created, and the preview is requested.
Summarized(r) ==
  /\ runs[r].pc = "summarize"
  /\ runs' = [runs EXCEPT ![r].pc = "preview", ![r].url = TRUE]
  /\ statusMessage' = Msg("Generating preview...")
  /\ UNCHANGED <<file, options, status, results, error, editingState, edits,
                 revoked>>

\* generatePdfPreview resolved (lines 156-164, 197).
Previewed(r) ==
  /\ runs[r].pc = "preview"
  /\ Publish(r, <<SummaryArtifact(runs[r].file, r)>>)
  /\ UNCHANGED <<file, options, statusMessage, error, editingState, edits>>

\* A page step that reads the format and the quality of the current options.
PageRenderedCurrentOptions(r, context) ==
  /\ runs[r].pc = "page"
  /\ LET f == runs[r].file
         i == runs[r].i
         n == NumPages(f)
         processed == IF context
                        THEN Append(runs[r].processed, PageArtifact(f, options, i))
                        ELSE runs[r].processed
     IN IF i < n
          THEN /\ statusMessage' = PageMsg(i + 1, n)
               /\ runs' = [runs EXCEPT ![r].i = i + 1, ![r].processed = processed]
               /\ UNCHANGED <<status, results, revoked>>
          ELSE /\ Publish(r, processed)
               /\ UNCHANGED statusMessage
  /\ UNCHANGED <<file, options, error, editingState, edits>>

\* Page i was fetched and, when the canvas has a 2d context, rendered and
\* encoded (lines 173-193); then the loop goes on or ends (lines 171-172,
\* 195-197).
PageRendered(r, context) ==
  /\ runs[r].pc = "page"
  /\ LET f == runs[r].file
         i == runs[r].i
         n == NumPages(f)
         processed == IF context
                        THEN Append(runs[r].processed,
                                    PageArtifact(f, runs[r].options, i))
                        ELSE runs[r].processed
     IN IF i < n
          THEN /\ statusMessage' = PageMsg(i + 1, n)
               /\ runs' = [runs EXCEPT ![r].i = i + 1, ![r].processed = processed]
               /\ UNCHANGED <<status, results, revoked>>
          ELSE /\ Publish(r, processed)
               /\ UNCHANGED statusMessage
  /\ UNCHANGED <<file, options, error, editingState, edits>>

-----------------------------------------------------------------------------
(* handleApplyEdit (lines 210-260)                                         *)

\* newResults[index] = x on a copy of arr (lines 247-249); an index past the
\* end leaves holes.
AssignAt(arr, index, x) ==
  [k \in 1..(IF index + 1 > Len(arr) THEN index + 1 ELSE Len(arr)) |->
     IF k = index + 1 THEN x
     ELSE IF k <= Len(arr) THEN arr[k] ELSE Hole]

\* A catch block that closes the edit session.
EditCatchClosing(message, index, prompt) ==
  /\ error' = message
  /\ editingState' = NoEdit

\* The catch block (lines 254-259), with the editingState the handler closed over.
EditCatch(message, index, prompt) ==
  /\ error' = message
  /\ editingState' = EditState(index, prompt, FALSE)

\* The checks of the handler without the check of the instruction.
LocalErrorNoPromptCheck(index, prompt) ==
  IF ~(index + 1 \in 1..Len(results)) \/ results[index + 1] = Hole
    THEN "Cannot read properties of undefined (reading 'dataUrl')"
  ELSE IF SplitParts(results[index + 1].dataUrl) # 2 THEN "Invalid Data URL"
  ELSE IF results[index + 1].dataUrl.mime = "" THEN "Could not determine MIME type"
  ELSE Null

\* What the handler throws before the remote call (lines 217-228), or Null.
LocalError(index, prompt) ==
  IF prompt = "" THEN "Please enter an edit description."
  ELSE IF ~(index + 1 \in 1..Len(results)) \/ results[index + 1] = Hole
    THEN "Cannot read properties of undefined (reading 'dataUrl')"
  ELSE IF SplitParts(results[index + 1].dataUrl) # 2 THEN "Invalid Data URL"
  ELSE IF results[index + 1].dataUrl.mime = "" THEN "Could not determine MIME type"
  ELSE Null

\* The synchronous part of handleApplyEdit (lines 210-233): up to the call of
\* editImageWithText, which edit request e then awaits.
handleApplyEdit(e) ==
  IF ~editingState.open
    THEN UNCHANGED vars
    ELSE LET index == editingState.index
             prompt == editingState.prompt
         IN /\ IF LocalError(index, prompt) # Null
                 THEN /\ EditCatch(LocalError(index, prompt), index, prompt)
                      /\ UNCHANGED edits
                 ELSE /\ editingState' = [editingState EXCEPT !.isLoading = TRUE]
                      /\ error' = Null
                      /\ edits' = [edits EXCEPT ![e] =
                                     [pc |-> "pending", index |-> index,
                                      prompt |-> prompt,
                                      original |-> results[index + 1]]]
            /\ UNCHANGED <<file, options, status, statusMessage, results,
                           runs, revoked>>

\* The Apply button (lines 390-392).
ApplyEdit ==
  /\ PanelShown
  /\ ~editingState.isLoading
  /\ editingState.prompt # ""
  /\ \E e \in EditIds :
       /\ edits[e].pc = "unused"
       /\ \A q \in EditIds : q < e => edits[q].pc # "unused"
       /\ handleApplyEdit(e)

\* The artifact built from the service's answer (lines 235-244).
UpdatedFile(original, payload) ==
  LET newDataUrl == DataUrl(original.dataUrl.mime, payload)
  IN  [original EXCEPT !.name = EditedName(original.name),
                       !.dataUrl = newDataUrl,
                       !.previewUrl = newDataUrl,
                       !.compressedSize = DecodedLength(payload)]

\* A success path that also clears the error message.
OnEditedClearsError(e, payload) ==
  /\ SetResults(AssignAt(results, edits[e].index,
                         UpdatedFile(edits[e].original, payload)))
  /\ editingState' = NoEdit
  /\ error' = Null

\* What the handler does with an answer it could decode (lines 246-252).
OnEdited(e, payload) ==
  /\ SetResults(AssignAt(results, edits[e].index,
                         UpdatedFile(edits[e].original, payload)))
  /\ editingState' = NoEdit
  /\ UNCHANGED error

\* editImageWithText resolved with `payload` (lines 233-252).
EditReturns(e, payload) ==
  /\ edits[e].pc = "pending"
  /\ OnEdited(e, payload)
  /\ edits' = [edits EXCEPT ![e] = [NoEditRun EXCEPT !.pc = "done"]]
  /\ UNCHANGED <<file, options, status, statusMessage, runs>>

\* The messages a rejection of editImageWithText may carry ("" for none).
RemoteErrors == {"", "The AI service failed."}

\* editImageWithText rejected, or decoding its answer threw (lines 254-259).
EditRejects(e, message) ==
  /\ edits[e].pc = "pending"
  /\ EditCatch(IF message = "" THEN "An error occurred during AI editing."
                               ELSE message,
               edits[e].index, edits[e].prompt)
  /\ edits' = [edits EXCEPT ![e] = [NoEditRun EXCEPT !.pc = "failed"]]
  /\ UNCHANGED <<file, options, status, statusMessage, results, runs, revoked>>

-----------------------------------------------------------------------------
Next ==
  \/ \E f \in Files : onDrop(f)
  \/ \E format \in Formats : SetFormat(format)
  \/ \E level \in Levels : SetLevel(level)
  \/ Reset
  \/ StartCompress
  \/ \E index \in Rows : OpenEdit(index)
  \/ \E prompt \in Prompts : UpdateEditText(prompt)
  \/ CancelEdit
  \/ ApplyEdit
  \/ \E r \in RunIds : ReadEmpty(r)
  \/ \E r \in RunIds : ReadError(r)
  \/ \E r \in RunIds : AwaitRejects(r)
  \/ \E r \in RunIds : Decoded(r)
  \/ \E r \in RunIds : TextExtracted(r)
  \/ \E r \in RunIds : Summarized(r)
  \/ \E r \in RunIds : Previewed(r)
  \/ \E r \in RunIds, context \in BOOLEAN : PageRendered(r, context)
  \/ \E e \in EditIds, payload \in EditReplies : EditReturns(e, payload)
  \/ \E e \in EditIds, message \in RemoteErrors : EditRejects(e, message)

Spec == Init /\ [][Next]_vars

-----------------------------------------------------------------------------
(* Properties of compression runs                                          *)

\* Run r is over in the next state and was not before, having failed.
RunFails(r) ==
  /\ runs[r].pc \in InFlight
  /\ runs'[r].pc \in {"failed", "rejected"}

\* Run r completes in this step.
RunCompletes(r) ==
  /\ runs[r].pc \in InFlight
  /\ runs'[r].pc = "done"

\* Run r is started in this step.
RunStarts(r) ==
  /\ runs[r].pc = "unused"
  /\ runs'[r].pc = "reading"

\* C1: a compression run that fails at any point after start-compression
\* leaves the controller with status 'error', an error message and an empty
\* result set.
C1_FailedRunSetsError ==
  [][\A r \in RunIds :
       RunFails(r) => /\ status' = "error"
                      /\ error' # Null
                      /\ results' = <<>>]_vars

\* C2: once every collaborator call of every run has returned or failed, the
\* controller has left 'processing' (for 'success' or 'error', or by a user
\* action): no run that is over leaves the status at 'processing'.
C2_RunsOverLeaveProcessing ==
  (\A r \in RunIds : runs[r].pc \notin InFlight) => status # "processing"

\* What run r assigns to `results` when its last await resolves.
RunOutputs(r) ==
  IF runs[r].pc = "preview"
    THEN {<<SummaryArtifact(runs[r].file, r)>>}
    ELSE {runs[r].processed,
          Append(runs[r].processed,
                 PageArtifact(runs[r].file, runs[r].options, runs[r].i))}

\* C6: a run in flight is not cancelled by reset, by a file selection or by
\* the start of a later run (such a step leaves it as it is), and whenever
\* its last await resolves it assigns its own output to the result set and
\* sets status 'success', whatever has happened since its start.
C6_StaleRunStillPublishes ==
  [][/\ \A r \in RunIds :
          RunCompletes(r) => /\ status' = "success"
                             /\ results' \in RunOutputs(r)
     /\ (file' # file \/ \E q \in RunIds : RunStarts(q))
          => \A r \in RunIds : runs[r].pc \in InFlight => runs'[r] = runs[r]
    ]_vars

\* A state in which run 1 has published its summary after run 2, which was
\* started later, had completed: the result set holds the blob URL of run 1.
C6_StaleRunOverwrote ==
  /\ status = "success"
  /\ runs[1].pc = "done"
  /\ runs[2].pc = "done"
  /\ Len(results) = 1
  /\ results[1].dataUrl = BlobUrl(1)

\* C7: while status is 'processing' the result set is empty.
C7_ProcessingHasNoResults ==
  status = "processing" => results = <<>>

-----------------------------------------------------------------------------
(* Properties of blob URLs                                                 *)

\* The handles the result set refers to.
Referenced ==
  {results[k].dataUrl.body : k \in {j \in 1..Len(results) :
                                      results[j].dataUrl.scheme = "blob"}}

\* C4: no blob URL held by an artifact of the result set has been revoked.
C4_NoRevokedUrlInResults ==
  \A h \in Referenced : revoked[h] = 0

\* C5: every blob URL a run created is revoked exactly once after it stops
\* being referenced: it is never revoked twice, and once its run is over and
\* the result set does not hold it, it has been revoked.
C5_UrlReleasedExactlyOnce ==
  \A h \in RunIds :
    runs[h].url =>
      /\ revoked[h] <= 1
      /\ (runs[h].pc \notin InFlight /\ h \notin Referenced) => revoked[h] = 1

-----------------------------------------------------------------------------
(* Properties of the edit session                                          *)

\* The edit requests that await the remote service.
Pending == {e \in EditIds : edits[e].pc = "pending"}

\* C3: at most one edit request is in flight; no edit button is enabled
\* while an edit session exists, and the Apply button is not enabled while
\* the session's in-flight flag is set.
C3_OneEditInFlight ==
  /\ Cardinality(Pending) <= 1
  /\ editingState.open => \A index \in Rows : ~ENABLED OpenEdit(index)
  /\ (editingState.open /\ editingState.isLoading) => ~ENABLED ApplyEdit

\* Edit request e succeeds in this step.
EditSucceeds(e) ==
  /\ edits[e].pc = "pending"
  /\ edits'[e].pc = "done"

\* Edit request e fails in this step.
EditFails(e) ==
  /\ edits[e].pc = "pending"
  /\ edits'[e].pc = "failed"

\* C8: when the edit request for index k succeeds, the artifact at k is
\* replaced by one named `..._edited.<ext>` with the new content, preview and
\* compressed size, every other artifact and the length of the result set
\* are unchanged, and the edit session is closed.
C8_EditReplacesOneArtifact ==
  [][\A e \in EditIds :
       EditSucceeds(e) =>
         LET k == edits[e].index + 1 IN
         /\ Len(results') = Len(results)
         /\ k \in 1..Len(results)
         /\ \E payload \in EditReplies :
              results'[k] =
                [results[k] EXCEPT
                   !.name = EditedName(results[k].name),
                   !.dataUrl = DataUrl(results[k].dataUrl.mime, payload),
                   !.previewUrl = DataUrl(results[k].dataUrl.mime, payload),
                   !.compressedSize = DecodedLength(payload)]
         /\ \A j \in 1..Len(results) : j # k => results'[j] = results[j]
         /\ editingState' = NoEdit]_vars

\* C9: when the edit request fails, the result set is unchanged, the error
\* message is set, and the edit session is open with the index and the
\* instruction of the request and its in-flight flag cleared.
C9_FailedEditKeepsSession ==
  [][\A e \in EditIds :
       EditFails(e) =>
         /\ results' = results
         /\ error' # Null
         /\ editingState' = EditState(edits[e].index, edits[e].prompt, FALSE)]_vars

\* A state after a failed edit request: the message is shown, the session is
\* open on the unedited artifact with the instruction kept, and Apply is
\* enabled again.
C9_SessionOpenAfterFailure ==
  /\ \E e \in EditIds : edits[e].pc = "failed"
  /\ Pending = {}
  /\ error \in {"An error occurred during AI editing.", "The AI service failed."}
  /\ PanelShown
  /\ editingState.prompt = "grayscale"
  /\ ~editingState.isLoading
  /\ results[editingState.index + 1].name.edited = 0

-----------------------------------------------------------------------------
(* handleApplyEdit called directly                                         *)
(*                                                                         *)
(* The Apply button is disabled while the instruction is empty, so Spec    *)
(* never runs the handler's own check of the instruction (lines 218-220).  *)
(* SpecApply starts from states Spec reaches, in which an edit session is   *)
(* open on the result list of an image run, with either instruction, and   *)
(* calls the handler whatever the button's `disabled` attribute says.      *)

\* The states after run 1 converted file 1 at some quality, the user opened
\* an edit session, typed or cleared the instruction and picked any options;
\* a first edit request may have failed.
InitApply ==
  /\ file = 1
  /\ options \in [format : Formats, level : Levels]
  /\ status = "success"
  /\ statusMessage = PageMsg(NumPages(1), NumPages(1))
  /\ \E level \in Levels :
       results = [i \in 1..NumPages(1) |->
                    PageArtifact(1, [format |-> "jpeg", level |-> level], i)]
  /\ editingState \in {EditState(index, prompt, FALSE) :
                         index \in Rows, prompt \in Prompts}
  /\ runs = [r \in RunIds |-> IF r = 1 THEN [NoRun EXCEPT !.pc = "done"] ELSE NoRun]
  /\ \E failedBefore \in BOOLEAN :
       /\ error = IF failedBefore THEN "The AI service failed." ELSE Null
       /\ edits = [e \in EditIds |->
                     IF failedBefore /\ e = 1
                       THEN [NoEditRun EXCEPT !.pc = "failed"] ELSE NoEditRun]
  /\ revoked = [r \in RunIds |-> 0]

\* handleApplyEdit, called in any state with an edit request to spare.
CallApplyEdit ==
  \E e \in EditIds :
    /\ edits[e].pc = "unused"
    /\ \A q \in EditIds : q < e => edits[q].pc # "unused"
    /\ handleApplyEdit(e)

NextApply ==
  \/ CallApplyEdit
  \/ \E e \in EditIds, payload \in EditReplies : EditReturns(e, payload)
  \/ \E e \in EditIds, message \in RemoteErrors : EditRejects(e, message)

SpecApply == InitApply /\ [][NextApply]_vars

\* No edit request of this step is answered: under SpecApply such a step is a
\* call of handleApplyEdit.
NoEditAnswered == \A e \in EditIds : edits[e].pc = "pending" => edits'[e].pc = "pending"

\* C10: handleApplyEdit with an empty instruction sets the validation
\* message, starts no request to the remote service, leaves the result set as
\* it is and leaves the edit session open; and no request ever carries an
\* empty instruction.
C10_EmptyInstructionIsLocalError ==
  [][/\ (editingState.open /\ editingState.prompt = "" /\ NoEditAnswered)
          => /\ error' = "Please enter an edit description."
             /\ edits' = edits
             /\ results' = results
             /\ editingState' = EditState(editingState.index, "", FALSE)
     /\ \A e \in EditIds : edits'[e].pc = "pending" => edits'[e].prompt # ""
    ]_vars

\* A state after handleApplyEdit ran on an empty instruction: the validation
\* message is set, the session is open, and no request was started.
C10_ValidationErrorShown ==
  /\ error = "Please enter an edit description."
  /\ editingState.open
  /\ editingState.prompt = ""
  /\ \A e \in EditIds : edits[e].pc = "unused"
  /\ Len(results) = NumPages(1)

-----------------------------------------------------------------------------
(* Properties of the user actions                                          *)

\* A file is selected in this step: onDrop took a PDF.
FileSelected ==
  /\ file = NoFile
  /\ file' # NoFile

\* C11: select-file with a valid PDF leaves the new file stored, status
\* 'idle', an empty result set, no error message and no edit session, from
\* every reachable state in which a file can be selected.
C11_SelectFileLeavesCleanState ==
  [][FileSelected => /\ FileType(file') = "application/pdf"
                     /\ status' = "idle"
                     /\ results' = <<>>
                     /\ error' = Null
                     /\ ~editingState'.open]_vars

\* A selection is rejected in this step: the message of line 85 appears.
SelectionRejected ==
  /\ error # "Invalid file type. Please upload a PDF."
  /\ error' = "Invalid file type. Please upload a PDF."

\* C12: select-file with a file that is not a PDF sets the error message and
\* changes nothing else: the stored file, status, result set and edit session
\* (and the options, the progress message and the runs and edit requests in
\* flight) are unchanged; and the message appears for no other reason.
C12_RejectedSelectionChangesOnlyError ==
  [][/\ \A f \in Files :
          (FileType(f) # "application/pdf" /\ onDrop(f))
            => error' = "Invalid file type. Please upload a PDF."
     /\ SelectionRejected
          => /\ file = NoFile
             /\ UNCHANGED <<file, status, results, editingState, options,
                            statusMessage, runs, edits, revoked>>
    ]_vars

\* A state after a rejected selection that kept what was there: no file is
\* stored, and the result list of a run that completed after "Change file"
\* is still shown with an edit session open on it.
C12_RejectedWithResultsKept ==
  /\ error = "Invalid file type. Please upload a PDF."
  /\ file = NoFile
  /\ status = "success"
  /\ Len(results) > 0
  /\ editingState.open

\* The "Change file" button is pressed in this step.
FileCleared ==
  /\ file # NoFile
  /\ file' = NoFile

\* C13: reset puts the controller in the initial state: no file, status
\* 'idle', empty result set, no error message, empty progress message and no
\* edit session, from every state in which the button is there; the options
\* and whatever is in flight are left as they are.
C13_ResetRestoresInitialState ==
  [][/\ FileCleared => /\ status' = "idle"
                       /\ results' = <<>>
                       /\ error' = Null
                       /\ statusMessage' = Msg("")
                       /\ editingState' = NoEdit
                       /\ UNCHANGED <<options, runs, edits>>
     /\ Reset => FileCleared
    ]_vars

\* A state right after a reset that had something of everything to clear: a
\* run is in flight showing its progress and an edit request is pending.
C13_ResetDuringRunAndEdit ==
  /\ file = NoFile
  /\ status = "idle"
  /\ results = <<>>
  /\ error = Null
  /\ statusMessage = Msg("")
  /\ editingState = NoEdit
  /\ \E r \in RunIds : runs[r].pc = "page"
  /\ Pending # {}

-----------------------------------------------------------------------------
(* handleCompress called directly                                          *)
(*                                                                         *)
(* The "Compress File" button is rendered only in the block of the         *)
(* selected file, so Spec never runs the handler's own check of `file`     *)
(* (line 111).  SpecCompress starts from states Spec reaches after "Change *)
(* file" was pressed during run 1, and calls the handler whatever is       *)
(* rendered.                                                               *)

\* The states with no file selected in which run 1, started on file 1 with
\* any options, either still reads the file, or has completed as an image run
\* after the reset, so that its result list is shown and the user may have
\* opened an edit session; a selection may have been rejected.
InitCompress ==
  /\ file = NoFile
  /\ options \in [format : Formats, level : Levels]
  /\ error \in {Null, "Invalid file type. Please upload a PDF."}
  /\ edits = [e \in EditIds |-> NoEditRun]
  /\ revoked = [r \in RunIds |-> 0]
  /\ \E completed \in BOOLEAN :
       IF completed
         THEN /\ status = "success"
              /\ statusMessage = PageMsg(NumPages(1), NumPages(1))
              /\ \E level \in Levels :
                   results = [i \in 1..NumPages(1) |->
                                PageArtifact(1, [format |-> "jpeg", level |-> level], i)]
              /\ editingState \in {NoEdit} \cup {EditState(index, prompt, FALSE) :
                                                   index \in Rows, prompt \in Prompts}
              /\ runs = [r \in RunIds |->
                           IF r = 1 THEN [NoRun EXCEPT !.pc = "done"] ELSE NoRun]
         ELSE /\ status = "idle"
              /\ statusMessage = Msg("")
              /\ results = <<>>
              /\ editingState = NoEdit
              /\ \E opts \in [format : Formats, level : Levels] :
                   runs = [r \in RunIds |->
                             IF r = 1
                               THEN [NoRun EXCEPT !.pc = "reading", !.file = 1,
                                                  !.options = opts]
                               ELSE NoRun]

\* handleCompress, called in any state with a run to spare.
CallCompress ==
  \E r \in RunIds :
    /\ runs[r].pc = "unused"
    /\ \A q \in RunIds : q < r => runs[q].pc # "unused"
    /\ handleCompress(r)

NextCompress ==
  \/ CallCompress
  \/ \E f \in Files : onDrop(f)
  \/ \E r \in RunIds : ReadEmpty(r)
  \/ \E r \in RunIds : ReadError(r)
  \/ \E r \in RunIds : AwaitRejects(r)
  \/ \E r \in RunIds : Decoded(r)
  \/ \E r \in RunIds : TextExtracted(r)
  \/ \E r \in RunIds : Summarized(r)
  \/ \E r \in RunIds : Previewed(r)
  \/ \E r \in RunIds, context \in BOOLEAN : PageRendered(r, context)

SpecCompress == InitCompress /\ [][NextCompress]_vars

\* No run in flight moves in this step.
NoRunAdvances == \A r \in RunIds : runs[r].pc \in InFlight => runs'[r] = runs[r]

\* C14: start-compression with no selected file is a no-op: status, result
\* set, error message, edit session and progress message are unchanged and
\* no run is started.  (Under SpecCompress a step with no file before and
\* after it that moves no run in flight and rejects no selection is a call of
\* handleCompress.)
C14_CompressWithoutFileIsNoOp ==
  [][file = NoFile =>
       /\ \A r \in RunIds : ~RunStarts(r)
       /\ (file' = NoFile /\ NoRunAdvances /\ ~SelectionRejected)
            => UNCHANGED <<status, results, error, editingState, statusMessage,
                           runs, options, edits, revoked>>
    ]_vars

\* A state in which handleCompress can be called with no file and with
\* something to lose: run 1 completed after the reset with one page skipped,
\* its result list is shown under the message of a rejected selection, and
\* there is a run to spare.
C14_NoFileAndResultsToLose ==
  /\ file = NoFile
  /\ status = "success"
  /\ Len(results) = 1
  /\ error # Null
  /\ ENABLED CallCompress

-----------------------------------------------------------------------------
(* Properties of the status                                                *)

\* C15: status becomes 'success' or 'error' only from 'processing': a state
\* with status 'success' or 'error' is entered only by a step whose previous
\* status was 'processing', never directly from 'idle'.
C15_OutcomeOnlyFromProcessing ==
  [][(status' \in {"success", "error"} /\ status' # status)
       => status = "processing"]_vars

-----------------------------------------------------------------------------
(* Properties of the image branch                                          *)

\* Run r is an image-mode run.
ImageRun(r) == runs[r].options.format # "pdf"

\* C16: an image-mode run on an N-page document that completes publishes
\* exactly N artifacts, the i-th one named <base>_page_<i>.<ext>, in page
\* order: no page is skipped, duplicated or reordered.
C16_OneArtifactPerPageInOrder ==
  [][\A r \in RunIds :
       (RunCompletes(r) /\ ImageRun(r)) =>
         LET f == runs[r].file IN
         /\ Len(results') = NumPages(f)
         /\ \A i \in 1..Len(results') :
              results'[i].name =
                PageName(StripPdf(FileName(f)), i, runs[r].options.format)]_vars

-----------------------------------------------------------------------------
(* The image branch over documents of every size                           *)
(*                                                                         *)
(* Spec converts one document, of 5 bytes and 2 pages.  SpecSizes converts *)
(* a document of any size up to MaxSize and any page count up to MaxPages  *)
(* to images, so that originalSizePerPage (line 168) is computed for every *)
(* pair.                                                                   *)

\* A document was dropped and an image format and a quality were picked.
InitSizes ==
  /\ file \in SizedFiles
  /\ options \in [format : Formats \ {"pdf"}, level : Levels]
  /\ status = "idle"
  /\ statusMessage = Msg("")
  /\ results = <<>>
  /\ error = Null
  /\ editingState = NoEdit
  /\ runs = [r \in RunIds |-> NoRun]
  /\ edits = [e \in EditIds |-> NoEditRun]
  /\ revoked = [r \in RunIds |-> 0]

NextSizes ==
  \/ StartCompress
  \/ \E r \in RunIds : Decoded(r)
  \/ \E r \in RunIds, context \in BOOLEAN : PageRendered(r, context)

SpecSizes == InitSizes /\ [][NextSizes]_vars

\* The artifacts a run has pushed or published.
Produced ==
  {results[k] : k \in 1..Len(results)}
    \cup UNION {{runs[r].processed[k] : k \in 1..Len(runs[r].processed)} : r \in RunIds}

\* C17 as stated: in an image-mode run on a file of S bytes with N >= 1
\* pages, every artifact has originalSize = floor(S / N).
C17_OriginalSizeIsFloor ==
  \A res \in Produced :
    res.originalSize = FileSize(file) \div NumPages(file)

\* C17: in an image-mode run on a file of S bytes with N >= 1 pages, every
\* artifact has originalSize = Math.round(S / N), the integer x nearest to
\* S / N with halves rounded up: x - 1/2 <= S / N < x + 1/2.
C17_OriginalSizeIsRounded ==
  \A res \in Produced :
    LET S == FileSize(file)
        N == NumPages(file)
        x == res.originalSize
    IN  /\ 2 * N * x - N <= 2 * S
        /\ 2 * S < 2 * N * x + N

\* A published result list of a 3-page document of 5 bytes: each artifact
\* has originalSize 2, where floor(5 / 3) is 1.
C17_RoundedUpAboveFloor ==
  /\ status = "success"
  /\ file = SizedFile(5, 3)
  /\ Len(results) = 3
  /\ \A k \in 1..3 : results[k].originalSize = 2

-----------------------------------------------------------------------------
(* Properties of the edit session and the result set                       *)

\* C18: whenever an edit session exists, its index is a valid index of the
\* current result set and the artifact at that index is an image artifact,
\* never a PDF-summary artifact.
C18_SessionPointsAtImage ==
  editingState.open =>
    /\ editingState.index + 1 \in 1..Len(results)
    /\ IsImage(results[editingState.index + 1])

-----------------------------------------------------------------------------
(* Properties of a run and the options                                     *)

\* Artifact res is page output of file f in format `format` at quality level
\* `level`: its name, its MIME type and the quality its payload was encoded at.
EncodedWith(res, f, format, level) ==
  /\ res.name.kind = "page"
  /\ res.name.base = StripPdf(FileName(f))
  /\ res.name.ext = format
  /\ res.dataUrl.mime = "image/" \o format
  /\ res.dataUrl.body % 100 = getQuality(level)

\* C19: a run uses the options and the file that were current when it was
\* started.  A step that changes the options or the file leaves every run in
\* flight as it is; a run in flight keeps its file and options and pushes
\* page artifacts only if it started with an image format, each in that
\* format at that quality; and when it completes it publishes the summary of
\* its file if it started with format pdf, and otherwise page artifacts that
\* all have the format and the quality it started with.
C19_RunUsesOptionsAtStart ==
  [][\A r \in RunIds :
       /\ RunStarts(r) => /\ runs'[r].file = file
                          /\ runs'[r].options = options
       /\ (runs[r].pc \in InFlight /\ (options' # options \/ file' # file))
            => runs'[r] = runs[r]
       /\ (runs[r].pc \in InFlight /\ runs'[r].pc \in InFlight)
            => /\ runs'[r].file = runs[r].file
               /\ runs'[r].options = runs[r].options
               /\ runs'[r].pc # "reading"
                    => ((runs'[r].pc \in {"text", "summarize", "preview"})
                          = (runs[r].options.format = "pdf"))
               /\ \A k \in 1..Len(runs'[r].processed) :
                    EncodedWith(runs'[r].processed[k], runs[r].file,
                                runs[r].options.format, runs[r].options.level)
       /\ RunCompletes(r)
            => IF runs[r].options.format = "pdf"
                 THEN results' = <<SummaryArtifact(runs[r].file, r)>>
                 ELSE \A k \in 1..Len(results') :
                        EncodedWith(results'[k], runs[r].file,
                                    runs[r].options.format, runs[r].options.level)
    ]_vars

\* A state in which the options were changed while an image run was in
\* flight: the run converts page 2, the artifact of page 1 was encoded as
\* jpeg at quality 0.75, and the options now say pdf and high.
C19_OptionsChangedInFlight ==
  \E r \in RunIds :
    /\ runs[r].pc = "page"
    /\ runs[r].i = 2
    /\ Len(runs[r].processed) = 1
    /\ runs[r].options = [format |-> "jpeg", level |-> "medium"]
    /\ options = [format |-> "pdf", level |-> "high"]
    /\ file = runs[r].file
    /\ status = "processing"

-----------------------------------------------------------------------------
(* Properties of the progress message                                      *)

\* The progress message is "Converting page i of n...".
ShowsPage(message) == message.text = "Converting page"

\* C20: the progress message never shows a smaller page number than one
\* shown earlier during the same 'processing' period: while the status
\* stays 'processing', a page message is never followed by the message of an
\* earlier page.
C20_PageNumberNeverDecreases ==
  [][(/\ status = "processing"
      /\ status' = "processing"
      /\ ShowsPage(statusMessage)
      /\ ShowsPage(statusMessage'))
       => statusMessage'.i >= statusMessage.i]_vars

-----------------------------------------------------------------------------
(* Properties of the error message                                         *)

\* C21: whenever status is 'error', the error message is non-null: no
\* sequence of file selections, runs, edits, cancels and resets and of
\* completions of what is in flight reaches status 'error' with no message.
C21_ErrorStatusHasMessage ==
  status = "error" => error # Null

\* A state with status 'error' whose message was replaced since the status
\* was set: a run started while an edit request was pending failed to read
\* its file, and the request has failed since, so the message is that of
\* the edit and the session is open again.
C21_ErrorStatusAfterFailedEdit ==
  /\ status = "error"
  /\ \E e \in EditIds : edits[e].pc = "failed"
  /\ error \in {"An error occurred during AI editing.", "The AI service failed."}
  /\ editingState.open
=============================================================================
